---- MODULE Spec2Model ----
(***************************************************************************)
(* Model of nova/api/ec2/cloud.py (CloudController): the volume attach /   *)
(* detach workflow and the instance launch workflow, with the resource     *)
(* store (volume and instance records) and the casts sent to worker nodes. *)
(***************************************************************************)
EXTENDS Integers, FiniteSets, Sequences, TLC

\* ------------------------------------------------------------------ bounds
NumVolumes == 2
NumInstances == 1
NumDevices == 2
NumProjects == 2
NumProcs == 2
MaxTime == 1
MaxInFlight == 1
NumNodes == 1
MaxHistory == 4
MaxCount == 2
MaxInstances == 2
NumAddresses == 2
MaxNetInFlight == 2
MaxIds == 2
NumItems == 2
NumReservations == 2

VolumeIds == 1..NumVolumes
InstanceIds == 1..NumInstances
Devices == 1..NumDevices
Projects == 1..NumProjects
Procs == 1..NumProcs
Times == 1..MaxTime
AddressIds == 1..NumAddresses
ItemIds == 1..NumItems
Nodes == {<<"node", n>> : n \in 1..NumNodes}

\* The node_name of an instance no node has claimed: 'unassigned'.
Unassigned == <<"unassigned", 0>>

\* Python's None, as the value of an absent instance_id / mountpoint /
\* attach_time (ids, devices and times are positive).
None == 0

\* ------------------------------------------------------------------- state
VARIABLES
    volumes,    \* volume_id -> volume record (the "volumes" set of the store)
    instances,  \* instance_id -> instance record, for the ids in the directory
    casts,      \* rpc.cast messages in flight to worker nodes
    pending,    \* per request handler: position inside attach_volume
    ret,        \* the last completed API call and its outcome
    history,    \* the calls a scenario keeps a log of, oldest first
    hosts,      \* project_id -> the network host bound to the project
    addresses,  \* public_ip -> elastic address record, for the allocated ones
    aggregate   \* topic -> the state update_state consolidates for it

vars == <<volumes, instances, casts, pending, ret, history, hosts, addresses,
          aggregate>>

\* A request context: context.user.is_admin(), context.project.id and
\* context.user.id; one administrator, and one plain user per project.
Contexts ==
    {[is_admin |-> TRUE, project_id |-> 1, user_id |-> <<"user", 0>>]} \cup
    {[is_admin |-> FALSE, project_id |-> p, user_id |-> <<"user", p>>] :
        p \in Projects}

\* Owner of the records that exist at start: spread over the projects.
OwnerOf(n) == ((n - 1) % NumProjects) + 1

Idle == [pc |-> "idle"]

\* A project no network host is bound to yet.
NoHost == <<"nohost", 0>>

\* ------------------------------------------------- volume state machine
\* (nova.volume.service.Volume)
start_attach(vol, instance_id, mountpoint, now) ==
    [vol EXCEPT !.status = "attaching",
                !.attach_status = "attaching",
                !.instance_id = instance_id,
                !.mountpoint = mountpoint,
                !.attach_time = now]

finish_attach(vol) ==
    [vol EXCEPT !.status = "attached", !.attach_status = "attached"]

start_detach(vol) ==
    [vol EXCEPT !.status = "detaching", !.attach_status = "detaching"]

\* The reset, keeping the attach_time of the attachment it drops.
finish_detach_keeps_time(vol) ==
    [vol EXCEPT !.status = "available",
                !.attach_status = "detached",
                !.instance_id = None,
                !.mountpoint = None]

finish_detach(vol) ==
    [vol EXCEPT !.status = "available",
                !.attach_status = "detached",
                !.instance_id = None,
                !.mountpoint = None,
                !.attach_time = None]

\* ------------------------------------------------------------ lookups
Authorized(context, record) ==
    context.is_admin \/ record.project_id = context.project_id

_get_volume(context, volume_id) == Authorized(context, volumes[volume_id])

_get_instance(context, instance_id) ==
    /\ instance_id \in DOMAIN instances
    /\ Authorized(context, instances[instance_id])

\* '%s.%s' % (FLAGS.compute_topic, node_name)
ComputeTopic(node_name) == <<"compute", node_name>>

\* rpc.cast: fire and forget. The commands for the network hosts wait in
\* one queue and those for the compute and volume nodes in another; a
\* message that finds its queue full is lost at once.
InFlight(queue, msg) ==
    {m \in queue : (m.topic[1] = "network") = (msg.topic[1] = "network")}

Capacity(msg) ==
    IF msg.topic[1] = "network" THEN MaxNetInFlight ELSE MaxInFlight

RECURSIVE CastAll(_, _)
CastAll(queue, msgs) ==
    IF msgs = <<>> THEN queue
    ELSE LET msg == Head(msgs)
         IN CastAll(IF \/ msg \in queue
                       \/ Cardinality(InFlight(queue, msg)) < Capacity(msg)
                    THEN queue \cup {msg}
                    ELSE queue,
                    Tail(msgs))

Cast(msgs) == CastAll(casts, msgs)

\* ------------------------------------------------------------ outcomes
\* The dict attach_volume and detach_volume return (lines 330-335, 355-360).
Attachment(volume, volume_id, instance_id) ==
    [attachTime |-> volume.attach_time, device |-> volume.mountpoint,
     instanceId |-> instance_id, status |-> volume.attach_status,
     volumeId |-> volume_id]

NoValue ==
    [attachTime |-> None, device |-> None, instanceId |-> None,
     status |-> "", volumeId |-> None]

\* A completed call: the request, the status of the volume when the call
\* came to its last step, how it ended (ok, or the kind of the exception raised and its text),
\* the number of casts it made and the value it returned.
Result(op, volume_id, instance_id, device, before, outcome, message, sent, value) ==
    [op |-> op, volume_id |-> volume_id, instance_id |-> instance_id,
     device |-> device, before |-> before, outcome |-> outcome,
     message |-> message, sent |-> Len(sent), value |-> value]

NoCall == Result("none", None, None, None, "", "none", "", <<>>, NoValue)

\* What getattr(self, topic) finds on the controller: "volumes" is the
\* property of lines 68-73, which yields a generator; a name the class does
\* not define is no attribute, unless a mapping was stored under it.
Generator == [kind |-> "generator"]
Missing == [kind |-> "missing"]
Topics == {"instances", "volumes", "networks"}

NoAggregate ==
    [topic \in Topics |->
        IF topic = "volumes" THEN Generator ELSE Missing]

Init ==
    /\ volumes = [v \in VolumeIds |->
                    [status |-> "available", attach_status |-> "detached",
                     instance_id |-> None, mountpoint |-> None,
                     attach_time |-> None, project_id |-> OwnerOf(v),
                     node_name |-> CHOOSE n \in Nodes : TRUE]]
    /\ instances = [i \in InstanceIds |->
                    [project_id |-> OwnerOf(i), node_name |-> Unassigned]]
    /\ casts = {}
    /\ pending = [p \in Procs |-> Idle]
    /\ ret = NoCall
    /\ history = <<>>
    /\ hosts = [p \in Projects |-> NoHost]
    /\ addresses = [a \in AddressIds |->
                    [project_id |-> OwnerOf(a), instance_id |-> None]]
    /\ aggregate = NoAggregate

\* ------------------------------------------------------- attach_volume
\* The scan, counting only the volumes whose attachment is complete.
DeviceInUse_attached_only(instance_id, device) ==
    \E v \in VolumeIds :
        /\ volumes[v].status = "attached"
        /\ volumes[v].instance_id = instance_id
        /\ volumes[v].mountpoint = device

\* The scan, leaving the loop after the first volume.
DeviceInUse_first_only(instance_id, device) ==
    \E v \in VolumeIds :
        /\ \A w \in VolumeIds : v <= w
        /\ volumes[v].instance_id = instance_id
        /\ volumes[v].mountpoint = device

\* lines 319-321: the scan of all volumes for the (instance, device) pair
DeviceInUse(instance_id, device) ==
    \E v \in VolumeIds :
        /\ volumes[v].instance_id = instance_id
        /\ volumes[v].mountpoint = device

\* line 316
AlreadyAttached(volume) == volume.status = "attached"

\* lines 315-321: resolve the volume, reject an attached one, scan all
\* volumes for the requested (instance, device) pair
AttachCheck(p, context, volume_id, instance_id, device) ==
    LET Fail(outcome, message) ==
            Result("attach_volume", volume_id, instance_id, device,
                   volumes[volume_id].status, outcome, message, <<>>, NoValue)
    IN
    /\ pending[p] = Idle
    /\ UNCHANGED <<volumes, instances, casts, history, hosts,
                   addresses, aggregate>>
    /\ IF ~_get_volume(context, volume_id)
       THEN /\ ret' = Fail("NotFound", "Volume could not be found")
            /\ UNCHANGED pending
       ELSE IF AlreadyAttached(volumes[volume_id])
       THEN /\ ret' = Fail("ApiError", "Volume is already attached")
            /\ UNCHANGED pending
       ELSE IF DeviceInUse(instance_id, device)
       THEN /\ ret' = Fail("ApiError", "Volume is already attached to device")
            /\ UNCHANGED pending
       ELSE /\ pending' = [pending EXCEPT ![p] =
                  [pc |-> "start_attach", context |-> context,
                   volume_id |-> volume_id, instance_id |-> instance_id,
                   device |-> device]]
            /\ UNCHANGED ret

AttachMessage(volume_id, instance_id, device, node_name) ==
    [topic |-> ComputeTopic(node_name), method |-> "attach_volume",
     volume_id |-> volume_id, instance_id |-> instance_id,
     mountpoint |-> device]

\* lines 322-335: the transition, then the lookup of the instance and the
\* cast to its node
AttachStart(p) ==
    LET r == pending[p]
        Done(outcome, message, sent, value) ==
            Result("attach_volume", r.volume_id, r.instance_id, r.device,
                   volumes[r.volume_id].status, outcome, message, sent,
                   value)
    IN
    /\ r.pc = "start_attach"
    /\ pending' = [pending EXCEPT ![p] = Idle]
    /\ UNCHANGED <<instances, history, hosts, addresses, aggregate>>
    /\ \E now \in Times :
         volumes' = [volumes EXCEPT ![r.volume_id] =
                         start_attach(@, r.instance_id, r.device, now)]
    /\ IF ~_get_instance(r.context, r.instance_id)
       THEN /\ ret' = Done("NotFound", "Instance could not be found",
                           <<>>, NoValue)
            /\ UNCHANGED casts
       ELSE LET msg == AttachMessage(r.volume_id, r.instance_id, r.device,
                                     instances[r.instance_id].node_name)
            IN /\ casts' = Cast(<<msg>>)
               /\ ret' = Done("ok", "", <<msg>>,
                              Attachment(volumes'[r.volume_id], r.volume_id,
                                         r.instance_id))

\* ------------------------------------------------------- detach_volume
DetachMessage(volume_id, instance_id, node_name) ==
    [topic |-> ComputeTopic(node_name), method |-> "detach_volume",
     volume_id |-> volume_id, instance_id |-> instance_id,
     mountpoint |-> None]

\* The handler, resetting the status alone.
detach_blind_status_only(volume) == [volume EXCEPT !.status = "available"]

\* The handler, swallowing the exception without touching the volume.
detach_blind_pass(volume) == volume

\* lines 351-354: the instance is gone, detach blind
detach_blind(volume) == finish_detach(volume)

\* The call, turning away a volume whose detach was already requested.
DetachVolume_refuses_detaching(context, volume_id) ==
    LET volume == volumes[volume_id]
        instance_id == volume.instance_id
        Done(outcome, message, sent, value) ==
            Result("detach_volume", volume_id, None, None, volume.status,
                   outcome, message, sent, value)
    IN
    /\ UNCHANGED <<instances, pending, history, hosts, addresses, aggregate>>
    /\ IF ~_get_volume(context, volume_id)
       THEN /\ ret' = Done("NotFound", "Volume could not be found",
                           <<>>, NoValue)
            /\ UNCHANGED <<volumes, casts>>
       ELSE IF instance_id = None
       THEN /\ ret' = Done("Error",
                           "Volume isn't attached to anything!", <<>>, NoValue)
            /\ UNCHANGED <<volumes, casts>>
       ELSE IF volume.status \in {"available", "detaching"}
       THEN /\ ret' = Done("Error", "Volume is already detached",
                           <<>>, NoValue)
            /\ UNCHANGED <<volumes, casts>>
       ELSE IF _get_instance(context, instance_id)
       THEN LET msg == DetachMessage(volume_id, instance_id,
                                     instances[instance_id].node_name)
            IN /\ volumes' = [volumes EXCEPT ![volume_id] = start_detach(@)]
               /\ casts' = Cast(<<msg>>)
               /\ ret' = Done("ok", "", <<msg>>,
                              Attachment(volumes'[volume_id], volume_id,
                                         instance_id))
       ELSE /\ volumes' = [volumes EXCEPT ![volume_id] =
                               detach_blind(start_detach(@))]
            /\ UNCHANGED casts
            /\ ret' = Done("ok", "", <<>>,
                           Attachment(volumes'[volume_id], volume_id,
                                      instance_id))

\* lines 337-360
DetachVolume(context, volume_id) ==
    LET volume == volumes[volume_id]
        instance_id == volume.instance_id
        Done(outcome, message, sent, value) ==
            Result("detach_volume", volume_id, None, None, volume.status,
                   outcome, message, sent, value)
    IN
    /\ UNCHANGED <<instances, pending, history, hosts, addresses, aggregate>>
    /\ IF ~_get_volume(context, volume_id)
       THEN /\ ret' = Done("NotFound", "Volume could not be found",
                           <<>>, NoValue)
            /\ UNCHANGED <<volumes, casts>>
       ELSE IF instance_id = None
       THEN /\ ret' = Done("Error",
                           "Volume isn't attached to anything!", <<>>, NoValue)
            /\ UNCHANGED <<volumes, casts>>
       ELSE IF volume.status = "available"
       THEN /\ ret' = Done("Error", "Volume is already detached",
                           <<>>, NoValue)
            /\ UNCHANGED <<volumes, casts>>
       ELSE IF _get_instance(context, instance_id)
       THEN LET msg == DetachMessage(volume_id, instance_id,
                                     instances[instance_id].node_name)
            IN /\ volumes' = [volumes EXCEPT ![volume_id] = start_detach(@)]
               /\ casts' = Cast(<<msg>>)
               /\ ret' = Done("ok", "", <<msg>>,
                              Attachment(volumes'[volume_id], volume_id,
                                         instance_id))
       ELSE /\ volumes' = [volumes EXCEPT ![volume_id] =
                               detach_blind(start_detach(@))]
            /\ UNCHANGED casts
            /\ ret' = Done("ok", "", <<>>,
                           Attachment(volumes'[volume_id], volume_id,
                                      instance_id))

\* ------------------------------------------------------- worker nodes
\* A compute node takes an attach command off its topic and confirms it.
NodeAttach(msg) ==
    /\ msg \in casts
    /\ msg.method = "attach_volume"
    /\ msg.topic[2] # Unassigned
    /\ casts' = casts \ {msg}
    /\ LET volume == volumes[msg.volume_id]
       IN volumes' =
            IF /\ volume.status = "attaching"
               /\ volume.instance_id = msg.instance_id
               /\ volume.mountpoint = msg.mountpoint
            THEN [volumes EXCEPT ![msg.volume_id] = finish_attach(@)]
            ELSE volumes
    /\ UNCHANGED <<instances, pending, ret, history, hosts,
                   addresses, aggregate>>

\* A compute node takes a detach command off its topic and confirms it.
NodeDetach(msg) ==
    /\ msg \in casts
    /\ msg.method = "detach_volume"
    /\ msg.topic[2] # Unassigned
    /\ casts' = casts \ {msg}
    /\ volumes' = [volumes EXCEPT ![msg.volume_id] = finish_detach(@)]
    /\ UNCHANGED <<instances, pending, ret, history, hosts,
                   addresses, aggregate>>

\* The bus loses a message.
LoseCast(msg) ==
    /\ msg \in casts
    /\ casts' = casts \ {msg}
    /\ UNCHANGED <<volumes, instances, pending, ret, history, hosts,
                   addresses, aggregate>>

\* A compute node claims a launched instance.
NodeClaim(instance_id, node_name) ==
    /\ instance_id \in DOMAIN instances
    /\ instances[instance_id].node_name = Unassigned
    /\ instances' = [instances EXCEPT ![instance_id].node_name = node_name]
    /\ UNCHANGED <<volumes, casts, pending, ret, history, hosts,
                   addresses, aggregate>>

\* The owning node removes the record of a terminated instance.
NodeDestroy(instance_id) ==
    /\ instance_id \in DOMAIN instances
    /\ instances[instance_id].node_name # Unassigned
    /\ instances' = [i \in DOMAIN instances \ {instance_id} |-> instances[i]]
    /\ UNCHANGED <<volumes, casts, pending, ret, history, hosts,
                   addresses, aggregate>>

Next ==
    \/ \E p \in Procs, context \in Contexts, volume_id \in VolumeIds,
          instance_id \in InstanceIds, device \in Devices :
            AttachCheck(p, context, volume_id, instance_id, device)
    \/ \E p \in Procs : AttachStart(p)
    \/ \E context \in Contexts, volume_id \in VolumeIds :
            DetachVolume(context, volume_id)
    \/ \E msg \in casts : NodeAttach(msg)
    \/ \E msg \in casts : NodeDetach(msg)
    \/ \E msg \in casts : LoseCast(msg)
    \/ \E instance_id \in InstanceIds, node_name \in Nodes :
            NodeClaim(instance_id, node_name)
    \/ \E instance_id \in InstanceIds : NodeDestroy(instance_id)

Spec == Init /\ [][Next]_vars

\* --------------------------------------------------- a scripted client
\* One client issues its calls one after the other (handler 1 only) and
\* keeps the outcome of each; the worker nodes and the bus act in between.
Client == CHOOSE p \in Procs : \A q \in Procs : p <= q

Record ==
    /\ ret # NoCall
    /\ Len(history) < MaxHistory
    /\ history' = Append(history, ret)
    /\ ret' = NoCall
    /\ UNCHANGED <<volumes, instances, casts, pending, hosts,
                   addresses, aggregate>>

ClientAttachCheck ==
    /\ ret = NoCall
    /\ Len(history) < MaxHistory
    /\ \E context \in Contexts, volume_id \in VolumeIds,
          instance_id \in InstanceIds, device \in Devices :
            AttachCheck(Client, context, volume_id, instance_id, device)

ClientAttachStart == AttachStart(Client)

ClientDetachVolume ==
    /\ ret = NoCall
    /\ Len(history) < MaxHistory
    /\ pending[Client] = Idle
    /\ \E context \in Contexts, volume_id \in VolumeIds :
            DetachVolume(context, volume_id)

NextScenario ==
    \/ ClientAttachCheck
    \/ ClientAttachStart
    \/ ClientDetachVolume
    \/ Record
    \/ \E msg \in casts : NodeAttach(msg)
    \/ \E msg \in casts : NodeDetach(msg)
    \/ \E msg \in casts : LoseCast(msg)
    \/ \E instance_id \in InstanceIds, node_name \in Nodes :
            NodeClaim(instance_id, node_name)

SpecScenario == Init /\ [][NextScenario]_vars

\* ------------------------------------------------------- run_instances
\* FLAGS.vpn_image_id, FLAGS.default_kernel, FLAGS.default_ramdisk
vpn_image_id == "ami-CLOUDPIPE"
default_kernel == "aki-11111"
default_ramdisk == "ari-11111"

\* A keyword argument the request does not carry.
Absent == ""

\* The image registry (nova.api.ec2.images): a public machine image naming
\* its kernel and ramdisk, a machine image private to project 2 naming
\* neither, the kernels and ramdisks, and the VPN image.
ImageCatalog ==
    { [imageId |-> "ami-1", kernelId |-> "aki-1", ramdiskId |-> "ari-1",
       project_id |-> 1, isPublic |-> TRUE],
      [imageId |-> "ami-2", kernelId |-> Absent, ramdiskId |-> Absent,
       project_id |-> 2, isPublic |-> FALSE],
      [imageId |-> "aki-1", kernelId |-> Absent, ramdiskId |-> Absent,
       project_id |-> 1, isPublic |-> TRUE],
      [imageId |-> "ari-1", kernelId |-> Absent, ramdiskId |-> Absent,
       project_id |-> 1, isPublic |-> TRUE],
      [imageId |-> default_kernel, kernelId |-> Absent, ramdiskId |-> Absent,
       project_id |-> 1, isPublic |-> TRUE],
      [imageId |-> default_ramdisk, kernelId |-> Absent, ramdiskId |-> Absent,
       project_id |-> 1, isPublic |-> TRUE],
      [imageId |-> vpn_image_id, kernelId |-> Absent, ramdiskId |-> Absent,
       project_id |-> 1, isPublic |-> FALSE] }

\* images.list(context, [image_id]): the images of that id the caller may use
images_list(context, image_id) ==
    { image \in ImageCatalog :
        /\ image.imageId = image_id
        /\ (image.isPublic \/ Authorized(context, image)) }

\* lines 292-299: whether the lookup succeeds, and the image it returns
_get_image(context, image_id) == images_list(context, image_id) # {}

TheImage(context, image_id) ==
    CHOOSE image \in images_list(context, image_id) : TRUE

\* image.get(key, default)
ImageGet(image, key, default) ==
    IF image[key] = Absent THEN default ELSE image[key]

\* context.user.get_key_pair(name): user 2 owns no key pair
KeyPairNames == {"k1"}

get_key_pair(user_id, key_name) ==
    IF key_name \in KeyPairNames /\ user_id # <<"user", 2>>
    THEN {[name |-> key_name, public_key |-> <<"ssh-rsa", user_id>>]}
    ELSE {}

\* utils.generate_uid / InstanceDirectory.new: an id no record uses
FreshId(used) == CHOOSE n \in 1..(Cardinality(used) + 1) : n \notin used

ReservationIds(store) == {store[i].reservation_id : i \in DOMAIN store}

\* What the network node answers to allocate_fixed_ip for an instance.
AllocateData(instance_id) ==
    [private_dns_name |-> <<"10.0.0", instance_id>>]

\* lines 556-557: every key of the answer is written into the record
Merge(inst, allocate_data) ==
    [key \in DOMAIN inst \cup DOMAIN allocate_data |->
        IF key \in DOMAIN allocate_data THEN allocate_data[key]
        ELSE inst[key]]

\* What else the answer may carry beside the address: nothing, or a key the
\* record has a field of the same name for.
AnswerKeys == {"", "reservation_id", "ami_launch_index", "project_id"}

\* allocate_data (line 535): the answer to allocate_fixed_ip
AllocateAnswer(instance_id, carries) ==
    LET data == AllocateData(instance_id)
    IN IF carries = "reservation_id"
       THEN Merge(data, [reservation_id |-> 1])
       ELSE IF carries = "ami_launch_index"
       THEN Merge(data, [ami_launch_index |-> 0])
       ELSE IF carries = "project_id"
       THEN Merge(data, [project_id |-> 1, user_id |-> <<"user", 1>>])
       ELSE data

RunMessage(instance_id) ==
    [topic |-> <<"compute">>, method |-> "run_instance",
     instance_id |-> instance_id]

\* The loop, saving the new record before it asks for the address.
RECURSIVE LaunchLoop_saves_first(_, _, _, _)
LaunchLoop_saves_first(num, store, sent, launch) ==
    IF num >= launch.max_count
    THEN [store |-> store, sent |-> sent, completed |-> TRUE]
    ELSE
      LET instance_id == FreshId(DOMAIN store)
          inst == [instance_id |-> instance_id,
                   node_name |-> Unassigned,
                   image_id |-> launch.image_id,
                   kernel_id |-> launch.kernel_id,
                   ramdisk_id |-> launch.ramdisk_id,
                   reservation_id |-> launch.reservation_id,
                   launch_time |-> launch.launch_time,
                   key_data |-> launch.key_data,
                   key_name |-> launch.key_name,
                   user_id |-> launch.context.user_id,
                   project_id |-> launch.context.project_id,
                   ami_launch_index |-> num]
          saved == Merge(inst, AllocateAnswer(instance_id, launch.carries))
          Store(record) ==
              [i \in DOMAIN store \cup {instance_id} |->
                  IF i = instance_id THEN record ELSE store[i]]
      IN IF num = launch.fail_at
         THEN [store |-> Store(inst), sent |-> sent, completed |-> FALSE]
         ELSE LaunchLoop_saves_first(num + 1, Store(saved),
                                     Append(sent, RunMessage(instance_id)),
                                     launch)

\* lines 530-564: the launch loop from index num on. launch carries what the
\* loop reads; fail_at is the index whose allocate_fixed_ip call raises (none
\* when it equals max_count) and carries what the answers hold. Yields the
\* directory, the casts made in order, and whether the loop ran to its end.
RECURSIVE LaunchLoop(_, _, _, _)
LaunchLoop(num, store, sent, launch) ==
    IF num >= launch.max_count
    THEN [store |-> store, sent |-> sent, completed |-> TRUE]
    ELSE IF num = launch.fail_at
    THEN [store |-> store, sent |-> sent, completed |-> FALSE]
    ELSE
      LET instance_id == FreshId(DOMAIN store)
          inst == [instance_id |-> instance_id,
                   node_name |-> Unassigned,
                   image_id |-> launch.image_id,
                   kernel_id |-> launch.kernel_id,
                   ramdisk_id |-> launch.ramdisk_id,
                   reservation_id |-> launch.reservation_id,
                   launch_time |-> launch.launch_time,
                   key_data |-> launch.key_data,
                   key_name |-> launch.key_name,
                   user_id |-> launch.context.user_id,
                   project_id |-> launch.context.project_id,
                   ami_launch_index |-> num]
          saved == Merge(inst, AllocateAnswer(instance_id, launch.carries))
      IN LaunchLoop(num + 1,
                    [i \in DOMAIN store \cup {instance_id} |->
                        IF i = instance_id THEN saved ELSE store[i]],
                    Append(sent, RunMessage(instance_id)),
                    launch)

\* The reservation listing, showing the VPN image to every caller.
_format_instances_shows_vpn(context, store, reservation_id) ==
    LET seen == { i \in DOMAIN store :
                    /\ context.is_admin
                         \/ store[i].project_id = context.project_id
                    /\ reservation_id # None
                         => store[i].reservation_id = reservation_id }
        Group(res_id) == { i \in seen : store[i].reservation_id = res_id }
        First(res_id) ==
            CHOOSE i \in Group(res_id) : \A j \in Group(res_id) : i <= j
    IN { [reservation_id |-> res_id,
          owner_id |-> store[First(res_id)].project_id,
          instances_set |->
            { [instance_id |-> store[i].instance_id,
               image_id |-> store[i].image_id,
               key_name |-> IF context.is_admin
                            THEN <<store[i].key_name, store[i].project_id,
                                   store[i].node_name>>
                            ELSE <<store[i].key_name>>,
               launch_time |-> store[i].launch_time,
               ami_launch_index |-> store[i].ami_launch_index,
               reservation_id |-> store[i].reservation_id] :
              i \in Group(res_id) }] :
         res_id \in { store[i].reservation_id : i \in seen } }

\* lines 380-427: the reservations the caller may see, each with the set of
\* its instance entries; owner_id is read off the first instance of the
\* reservation, the directory being walked in the order of the ids.
_format_instances(context, store, reservation_id) ==
    LET seen == { i \in DOMAIN store :
                    /\ context.is_admin
                         \/ store[i].project_id = context.project_id
                    /\ reservation_id # None
                         => store[i].reservation_id = reservation_id
                    /\ ~context.is_admin
                         => store[i].image_id # vpn_image_id }
        Entry(i) ==
            [instance_id |-> store[i].instance_id,
             image_id |-> store[i].image_id,
             key_name |-> IF context.is_admin
                          THEN <<store[i].key_name, store[i].project_id,
                                 store[i].node_name>>
                          ELSE <<store[i].key_name>>,
             launch_time |-> store[i].launch_time,
             ami_launch_index |-> store[i].ami_launch_index,
             reservation_id |-> store[i].reservation_id]
        Group(res_id) == { i \in seen : store[i].reservation_id = res_id }
        First(res_id) ==
            CHOOSE i \in Group(res_id) : \A j \in Group(res_id) : i <= j
    IN { [reservation_id |-> res_id,
          owner_id |-> store[First(res_id)].project_id,
          instances_set |-> { Entry(i) : i \in Group(res_id) }] :
         res_id \in { store[i].reservation_id : i \in seen } }

RunResult(context, max_count, outcome, message, sent, value) ==
    [op |-> "run_instances", context |-> context, max_count |-> max_count,
     outcome |-> outcome, message |-> message, sent |-> Len(sent),
     value |-> value]

\* lines 486-494: the host bound to the caller's project, or the one
\* set_network_host binds when there is none
NeedsHost(context) == hosts[context.project_id] = NoHost

\* lines 496-566. host is the node set_network_host would bind, host_call_ok
\* whether that call answers, fail_at the index whose allocation call raises
\* and carries what the answers of the others hold beside the address.
RunInstances(context, image_id, kernel_arg, key_name, max_count, host, host_call_ok, fail_at, now, carries) ==
    LET Fail(outcome, message) ==
            RunResult(context, max_count, outcome, message, <<>>, {})
        image == TheImage(context, image_id)
        kernel_id == IF kernel_arg # Absent THEN kernel_arg
                     ELSE ImageGet(image, "kernelId", default_kernel)
        ramdisk_id == ImageGet(image, "ramdiskId", default_ramdisk)
        key_pair == get_key_pair(context.user_id, key_name)
        launch == [context |-> context, image_id |-> image.imageId,
                   kernel_id |-> kernel_id, ramdisk_id |-> ramdisk_id,
                   reservation_id |-> FreshId(ReservationIds(instances)),
                   launch_time |-> now,
                   key_name |-> key_name,
                   key_data |-> IF key_name = Absent THEN Absent
                                ELSE (CHOOSE k \in key_pair : TRUE).public_key,
                   max_count |-> max_count, fail_at |-> fail_at,
                   carries |-> carries]
        done == LaunchLoop(0, instances, <<>>, launch)
        shown == _format_instances(context, done.store, launch.reservation_id)
    IN
    /\ Cardinality(DOMAIN instances) + max_count <= MaxInstances
    /\ UNCHANGED <<volumes, pending, history, addresses, aggregate>>
    /\ IF image_id = vpn_image_id
       THEN /\ ret' = Fail("UnboundLocalError", "image")
            /\ UNCHANGED <<instances, casts, hosts>>
       ELSE IF ~_get_image(context, image_id)
       THEN /\ ret' = Fail("NotFound", "Image could not be found")
            /\ UNCHANGED <<instances, casts, hosts>>
       ELSE IF ~_get_image(context, kernel_id) \/ ~_get_image(context, ramdisk_id)
       THEN /\ ret' = Fail("NotFound", "Image could not be found")
            /\ UNCHANGED <<instances, casts, hosts>>
       ELSE IF key_name # Absent /\ key_pair = {}
       THEN /\ ret' = Fail("ApiError", "Key Pair not found")
            /\ UNCHANGED <<instances, casts, hosts>>
       ELSE IF NeedsHost(context) /\ ~host_call_ok
       THEN /\ ret' = Fail("RemoteError", "set_network_host")
            /\ UNCHANGED <<instances, casts, hosts>>
       ELSE /\ hosts' = IF NeedsHost(context)
                        THEN [hosts EXCEPT ![context.project_id] = host]
                        ELSE hosts
            /\ instances' = done.store
            /\ casts' = Cast(done.sent)
            /\ ret' =
                 IF ~done.completed
                 THEN RunResult(context, max_count, "RemoteError",
                                "allocate_fixed_ip", done.sent, {})
                 ELSE IF Cardinality(shown) # 1
                 THEN RunResult(context, max_count, "AssertionError",
                                "len(i) == 1", done.sent, {})
                 ELSE RunResult(context, max_count, "ok", "", done.sent, shown)

\* A compute node takes a run command off the compute topic and claims the
\* instance.
NodeRun(msg, node_name) ==
    /\ msg \in casts
    /\ msg.method = "run_instance"
    /\ casts' = casts \ {msg}
    /\ instances' =
         IF msg.instance_id \in DOMAIN instances
         THEN [instances EXCEPT ![msg.instance_id].node_name = node_name]
         ELSE instances
    /\ UNCHANGED <<volumes, pending, ret, history, hosts,
                   addresses, aggregate>>

InitRun ==
    /\ Init!1 /\ Init!3 /\ Init!4 /\ Init!5 /\ Init!6 /\ Init!7
    /\ Init!8 /\ Init!9
    /\ instances = <<>>

NextRun ==
    \/ \E context \in Contexts,
          image_id \in {"ami-1", "ami-2", vpn_image_id},
          kernel_arg \in {Absent, "aki-none"},
          key_name \in {Absent} \cup KeyPairNames,
          max_count \in 0..MaxCount,
          host \in Nodes, host_call_ok \in BOOLEAN, now \in Times :
        \E fail_at \in 0..max_count :
            RunInstances(context, image_id, kernel_arg, key_name, max_count,
                         host, host_call_ok, fail_at, now, "")
    \/ \E msg \in casts, node_name \in Nodes : NodeRun(msg, node_name)
    \/ \E msg \in casts : LoseCast(msg)

SpecRun == InitRun /\ [][NextRun]_vars

\* Launches of the public image, with every answer the network node may
\* give to allocate_fixed_ip.
NextLaunch ==
    \/ \E context \in Contexts,
          key_name \in {Absent} \cup KeyPairNames,
          max_count \in 0..MaxCount,
          host \in Nodes, host_call_ok \in BOOLEAN, now \in Times,
          carries \in AnswerKeys :
        \E fail_at \in 0..max_count :
            RunInstances(context, "ami-1", Absent, key_name, max_count,
                         host, host_call_ok, fail_at, now, carries)
    \/ \E msg \in casts, node_name \in Nodes : NodeRun(msg, node_name)
    \/ \E msg \in casts : LoseCast(msg)

SpecLaunch == InitRun /\ [][NextLaunch]_vars

\* ------------------------------------- instances and elastic addresses
\* dict.get(key, default)
Get(record, key, default) ==
    IF key \in DOMAIN record THEN record[key] ELSE default

\* '%s.%s' % (FLAGS.network_topic, host), '%s.%s' % (FLAGS.volume_topic, node)
NetworkTopic(host) == <<"network", host>>
VolumeTopic(node_name) == <<"volume", node_name>>

\* The host the project's network commands go to: the one bound to the
\* project or, when there is none, the one set_network_host binds.
TopicHost(context, host) ==
    IF NeedsHost(context) THEN host ELSE hosts[context.project_id]

HostsAfter(context, host) ==
    IF NeedsHost(context) THEN [hosts EXCEPT ![context.project_id] = host]
    ELSE hosts

\* network_model.get_public_ip_for_instance: the elastic address associated
\* with the instance, None when there is none
get_public_ip_for_instance(instance_id) ==
    LET held == {a \in DOMAIN addresses :
                    addresses[a].instance_id = instance_id}
    IN IF held = {} THEN None
       ELSE CHOOSE a \in held : \A b \in held : a <= b

\* lines 285-290
_get_address(context, public_ip) ==
    /\ public_ip \in DOMAIN addresses
    /\ Authorized(context, addresses[public_ip])

\* The ids a request may name: those of the instances and one no instance has.
RequestIds == 1..(NumInstances + 1)

IdLists ==
    UNION {[1..n -> RequestIds] : n \in 0..MaxIds}

\* A completed call on instances or addresses: the request, how it ended,
\* the casts it made in order and the value it returned.
CallResult(op, context, args, outcome, message, sent, value) ==
    [op |-> op, context |-> context, args |-> args, outcome |-> outcome,
     message |-> message, sent |-> Len(sent), msgs |-> sent, value |-> value]

DisassociateMessage(topic, elastic_ip) ==
    [topic |-> topic, method |-> "disassociate_elastic_ip",
     elastic_ip |-> elastic_ip]

DeallocateFixedMessage(topic, fixed_ip) ==
    [topic |-> topic, method |-> "deallocate_fixed_ip", fixed_ip |-> fixed_ip]

TerminateMessage(instance_id, node_name) ==
    [topic |-> ComputeTopic(node_name), method |-> "terminate_instance",
     instance_id |-> instance_id]

\* The loop, leaving at the first id that does not resolve.
RECURSIVE TerminateLoop_abort(_, _, _, _, _, _)
TerminateLoop_abort(k, instance_id, context, network_topic, store, sent) ==
    IF k > Len(instance_id) THEN [store |-> store, sent |-> sent]
    ELSE
      LET i == instance_id[k]
      IN IF ~(i \in DOMAIN store /\ Authorized(context, store[i]))
         THEN [store |-> store, sent |-> sent]
         ELSE
           LET instance == store[i]
               elastic_ip == get_public_ip_for_instance(i)
               assigned == Get(instance, "node_name", Unassigned) # Unassigned
           IN TerminateLoop_abort(k + 1, instance_id, context, network_topic,
                IF assigned THEN store
                ELSE [j \in DOMAIN store \ {i} |-> store[j]],
                sent
                \o (IF elastic_ip # None
                    THEN <<DisassociateMessage(network_topic, elastic_ip)>>
                    ELSE <<>>)
                \o (IF "private_dns_name" \in DOMAIN instance
                    THEN <<DeallocateFixedMessage(network_topic,
                                                  instance.private_dns_name)>>
                    ELSE <<>>)
                \o (IF assigned
                    THEN <<TerminateMessage(i, instance.node_name)>>
                    ELSE <<>>))

\* The loop, casting the terminate command whether or not a node owns the
\* instance.
RECURSIVE TerminateLoop_always_cast(_, _, _, _, _, _)
TerminateLoop_always_cast(k, instance_id, context, network_topic, store, sent) ==
    IF k > Len(instance_id) THEN [store |-> store, sent |-> sent]
    ELSE
      LET i == instance_id[k]
      IN IF ~(i \in DOMAIN store /\ Authorized(context, store[i]))
         THEN TerminateLoop_always_cast(k + 1, instance_id, context,
                                        network_topic, store, sent)
         ELSE
           LET instance == store[i]
               elastic_ip == get_public_ip_for_instance(i)
           IN TerminateLoop_always_cast(k + 1, instance_id, context,
                network_topic, store,
                sent
                \o (IF elastic_ip # None
                    THEN <<DisassociateMessage(network_topic, elastic_ip)>>
                    ELSE <<>>)
                \o (IF "private_dns_name" \in DOMAIN instance
                    THEN <<DeallocateFixedMessage(network_topic,
                                                  instance.private_dns_name)>>
                    ELSE <<>>)
                \o <<TerminateMessage(i, Get(instance, "node_name",
                                             Unassigned))>>)

\* lines 571-605: the loop from position k of the list on; store is the
\* directory and sent the casts made so far. An id that does not resolve is
\* skipped (lines 573-578); for one that does, the casts of lines 585, 595
\* and 601 are made, or the record destroyed (line 605).
RECURSIVE TerminateLoop(_, _, _, _, _, _)
TerminateLoop(k, instance_id, context, network_topic, store, sent) ==
    IF k > Len(instance_id) THEN [store |-> store, sent |-> sent]
    ELSE
      LET i == instance_id[k]
      IN IF ~(i \in DOMAIN store /\ Authorized(context, store[i]))
         THEN TerminateLoop(k + 1, instance_id, context, network_topic,
                            store, sent)
         ELSE
           LET instance == store[i]
               elastic_ip == get_public_ip_for_instance(i)
               assigned == Get(instance, "node_name", Unassigned) # Unassigned
           IN TerminateLoop(k + 1, instance_id, context, network_topic,
                IF assigned THEN store
                ELSE [j \in DOMAIN store \ {i} |-> store[j]],
                sent
                \o (IF elastic_ip # None
                    THEN <<DisassociateMessage(network_topic, elastic_ip)>>
                    ELSE <<>>)
                \o (IF "private_dns_name" \in DOMAIN instance
                    THEN <<DeallocateFixedMessage(network_topic,
                                                  instance.private_dns_name)>>
                    ELSE <<>>)
                \o (IF assigned
                    THEN <<TerminateMessage(i, instance.node_name)>>
                    ELSE <<>>))

\* lines 568-606. host is the node set_network_host would bind and
\* host_call_ok whether that call answers.
TerminateInstances(context, instance_id, host, host_call_ok) ==
    LET network_topic == NetworkTopic(TopicHost(context, host))
        done == TerminateLoop(1, instance_id, context, network_topic,
                              instances, <<>>)
    IN
    /\ UNCHANGED <<volumes, pending, history, addresses, aggregate>>
    /\ IF NeedsHost(context) /\ ~host_call_ok
       THEN /\ ret' = CallResult("terminate_instances", context, instance_id,
                                 "RemoteError", "set_network_host", <<>>,
                                 FALSE)
            /\ UNCHANGED <<instances, casts, hosts>>
       ELSE /\ hosts' = HostsAfter(context, host)
            /\ instances' = done.store
            /\ casts' = Cast(done.sent)
            /\ ret' = CallResult("terminate_instances", context, instance_id,
                                 "ok", "", done.sent, TRUE)

RebootMessage(instance_id, node_name) ==
    [topic |-> ComputeTopic(node_name), method |-> "reboot_instance",
     instance_id |-> instance_id]

\* The loop, passing over an id that does not resolve.
RECURSIVE RebootLoop_skip(_, _, _, _)
RebootLoop_skip(k, instance_id, context, sent) ==
    IF k > Len(instance_id) THEN [sent |-> sent, completed |-> TRUE]
    ELSE IF ~_get_instance(context, instance_id[k])
    THEN RebootLoop_skip(k + 1, instance_id, context, sent)
    ELSE RebootLoop_skip(k + 1, instance_id, context,
                         Append(sent, RebootMessage(instance_id[k],
                                   instances[instance_id[k]].node_name)))

\* lines 610-614: the loop from position k on; it ends at the first id
\* whose lookup raises.
RECURSIVE RebootLoop(_, _, _, _)
RebootLoop(k, instance_id, context, sent) ==
    IF k > Len(instance_id) THEN [sent |-> sent, completed |-> TRUE]
    ELSE IF ~_get_instance(context, instance_id[k])
    THEN [sent |-> sent, completed |-> FALSE]
    ELSE RebootLoop(k + 1, instance_id, context,
                    Append(sent, RebootMessage(instance_id[k],
                              instances[instance_id[k]].node_name)))

\* lines 608-615
RebootInstances(context, instance_id) ==
    LET done == RebootLoop(1, instance_id, context, <<>>)
    IN
    /\ UNCHANGED <<volumes, instances, pending, history, hosts, addresses,
                   aggregate>>
    /\ casts' = Cast(done.sent)
    /\ ret' = IF done.completed
              THEN CallResult("reboot_instances", context, instance_id,
                              "ok", "", done.sent, TRUE)
              ELSE CallResult("reboot_instances", context, instance_id,
                              "NotFound", "Instance could not be found",
                              done.sent, FALSE)

\* lines 459-465: no lookup of the address comes before the cast
ReleaseAddress(context, public_ip, host, host_call_ok) ==
    LET msg == [topic |-> NetworkTopic(TopicHost(context, host)),
                method |-> "deallocate_elastic_ip", elastic_ip |-> public_ip]
    IN
    /\ UNCHANGED <<volumes, instances, pending, history, addresses,
                   aggregate>>
    /\ IF NeedsHost(context) /\ ~host_call_ok
       THEN /\ ret' = CallResult("release_address", context, public_ip,
                                 "RemoteError", "set_network_host", <<>>,
                                 FALSE)
            /\ UNCHANGED <<casts, hosts>>
       ELSE /\ hosts' = HostsAfter(context, host)
            /\ casts' = Cast(<<msg>>)
            /\ ret' = CallResult("release_address", context, public_ip,
                                 "ok", "", <<msg>>, TRUE)

\* lines 467-476
AssociateAddress(context, instance_id, public_ip, host, host_call_ok) ==
    LET args == <<instance_id, public_ip>>
        Fail(outcome, message) ==
            CallResult("associate_address", context, args, outcome, message,
                       <<>>, FALSE)
        msg == [topic |-> NetworkTopic(TopicHost(context, host)),
                method |-> "associate_elastic_ip", elastic_ip |-> public_ip,
                fixed_ip |-> instances[instance_id].private_dns_name,
                instance_id |-> instance_id]
    IN
    /\ UNCHANGED <<volumes, instances, pending, history, addresses,
                   aggregate>>
    /\ IF ~_get_instance(context, instance_id)
       THEN /\ ret' = Fail("NotFound", "Instance could not be found")
            /\ UNCHANGED <<casts, hosts>>
       ELSE IF ~_get_address(context, public_ip)
       THEN /\ ret' = Fail("NotFound", "Address not found")
            /\ UNCHANGED <<casts, hosts>>
       ELSE IF NeedsHost(context) /\ ~host_call_ok
       THEN /\ ret' = Fail("RemoteError", "set_network_host")
            /\ UNCHANGED <<casts, hosts>>
       ELSE IF "private_dns_name" \notin DOMAIN instances[instance_id]
       THEN /\ ret' = Fail("KeyError", "private_dns_name")
            /\ hosts' = HostsAfter(context, host)
            /\ UNCHANGED casts
       ELSE /\ hosts' = HostsAfter(context, host)
            /\ casts' = Cast(<<msg>>)
            /\ ret' = CallResult("associate_address", context, args, "ok",
                                 "", <<msg>>, TRUE)

\* lines 478-484
DisassociateAddress(context, public_ip, host, host_call_ok) ==
    LET msg == DisassociateMessage(NetworkTopic(TopicHost(context, host)),
                                   public_ip)
        Fail(outcome, message) ==
            CallResult("disassociate_address", context, public_ip, outcome,
                       message, <<>>, FALSE)
    IN
    /\ UNCHANGED <<volumes, instances, pending, history, addresses,
                   aggregate>>
    /\ IF ~_get_address(context, public_ip)
       THEN /\ ret' = Fail("NotFound", "Address not found")
            /\ UNCHANGED <<casts, hosts>>
       ELSE IF NeedsHost(context) /\ ~host_call_ok
       THEN /\ ret' = Fail("RemoteError", "set_network_host")
            /\ UNCHANGED <<casts, hosts>>
       ELSE /\ hosts' = HostsAfter(context, host)
            /\ casts' = Cast(<<msg>>)
            /\ ret' = CallResult("disassociate_address", context, public_ip,
                                 "ok", "", <<msg>>, TRUE)

\* lines 617-624
DeleteVolume(context, volume_id) ==
    LET msg == [topic |-> VolumeTopic(volumes[volume_id].node_name),
                method |-> "delete_volume", volume_id |-> volume_id]
    IN
    /\ UNCHANGED <<volumes, instances, pending, history, hosts, addresses,
                   aggregate>>
    /\ IF ~_get_volume(context, volume_id)
       THEN /\ ret' = CallResult("delete_volume", context, volume_id,
                                 "NotFound", "Volume could not be found",
                                 <<>>, FALSE)
            /\ UNCHANGED casts
       ELSE /\ casts' = Cast(<<msg>>)
            /\ ret' = CallResult("delete_volume", context, volume_id, "ok",
                                 "", <<msg>>, TRUE)

\* ElasticIp.all(): the addresses of the store, in one of the orders the
\* store may hand them out.
Orders(ids) ==
    { order \in [1..Cardinality(ids) -> ids] :
        \A j, k \in DOMAIN order : order[j] = order[k] => j = k }

\* lines 438-447: the entry made for an address the caller may see
AddressEntry(context, public_ip) ==
    [public_ip |-> public_ip,
     instance_id |->
        IF context.is_admin
        THEN <<addresses[public_ip].instance_id,
               addresses[public_ip].project_id>>
        ELSE <<addresses[public_ip].instance_id>>]

\* lines 433-448: the loop from position k of the store's order on.
\* address_rv is the set holding the entry last made (empty while the name
\* is unbound) and out the list so far; the append of line 448 stands after
\* the if, not inside it.
RECURSIVE FormatLoop(_, _, _, _, _)
FormatLoop(k, order, context, address_rv, out) ==
    IF k > Len(order) THEN [completed |-> TRUE, out |-> out]
    ELSE
      LET rv == IF Authorized(context, addresses[order[k]])
                THEN {AddressEntry(context, order[k])}
                ELSE address_rv
      IN IF rv = {}
         THEN [completed |-> FALSE, out |-> out]
         ELSE FormatLoop(k + 1, order, context, rv,
                         Append(out, CHOOSE entry \in rv : TRUE))

\* lines 432-449
format_addresses(context, order) ==
    FormatLoop(1, order, context, {}, <<>>)

\* lines 429-430
DescribeAddresses(context, order) ==
    LET done == format_addresses(context, order)
    IN
    /\ UNCHANGED <<volumes, instances, casts, pending, history, hosts,
                   addresses, aggregate>>
    /\ ret' = IF done.completed
              THEN CallResult("describe_addresses", context, order, "ok",
                              "", <<>>, done.out)
              ELSE CallResult("describe_addresses", context, order,
                              "UnboundLocalError", "address_rv", <<>>, <<>>)

\* ------------------------------------------- the nodes behind the topics
\* The owning compute node takes a terminate command and removes the record.
NodeTerminate(msg) ==
    /\ msg \in casts
    /\ msg.method = "terminate_instance"
    /\ casts' = casts \ {msg}
    /\ instances' = [i \in DOMAIN instances \ {msg.instance_id} |->
                        instances[i]]
    /\ UNCHANGED <<volumes, pending, ret, history, hosts, addresses,
                   aggregate>>

\* A compute node takes a reboot command, a volume node a delete command:
\* neither changes a record kept here.
NodeOther(msg) ==
    /\ msg \in casts
    /\ msg.method \in {"reboot_instance", "delete_volume"}
    /\ msg.topic[2] # Unassigned
    /\ casts' = casts \ {msg}
    /\ UNCHANGED <<volumes, instances, pending, ret, history, hosts,
                   addresses, aggregate>>

\* The network host takes a command about an address.
NetworkNode(msg) ==
    /\ msg \in casts
    /\ msg.topic[1] = "network"
    /\ casts' = casts \ {msg}
    /\ addresses' =
         IF msg.method = "deallocate_fixed_ip"
            \/ msg.elastic_ip \notin DOMAIN addresses
         THEN addresses
         ELSE IF msg.method = "disassociate_elastic_ip"
         THEN [addresses EXCEPT ![msg.elastic_ip].instance_id = None]
         ELSE IF msg.method = "associate_elastic_ip"
         THEN [addresses EXCEPT ![msg.elastic_ip].instance_id =
                                    msg.instance_id]
         ELSE [a \in DOMAIN addresses \ {msg.elastic_ip} |-> addresses[a]]
    /\ UNCHANGED <<volumes, instances, pending, ret, history, hosts,
                   aggregate>>

\* The instances at the start: each with the private address its launch
\* allocated, owned by no node yet.
InitTerm ==
    /\ Init!1 /\ Init!3 /\ Init!4 /\ Init!5 /\ Init!6 /\ Init!7
    /\ Init!8 /\ Init!9
    /\ instances = [i \in InstanceIds |->
                      [instance_id |-> i, project_id |-> OwnerOf(i),
                       node_name |-> Unassigned,
                       private_dns_name |-> AllocateData(i).private_dns_name]]

\* The caller takes the answer of the call it made.
Return ==
    /\ ret # NoCall
    /\ ret' = NoCall
    /\ UNCHANGED <<volumes, instances, casts, pending, history, hosts,
                   addresses, aggregate>>

\* One call is answered before the next step is taken.
NextTerm ==
    \/ /\ ret = NoCall
       /\ \E context \in Contexts, instance_id \in IdLists, host \in Nodes,
             host_call_ok \in BOOLEAN :
               TerminateInstances(context, instance_id, host, host_call_ok)
    \/ /\ ret = NoCall
       /\ \E context \in Contexts, instance_id \in IdLists :
               RebootInstances(context, instance_id)
    \/ /\ ret = NoCall
       /\ \E context \in Contexts, public_ip \in AddressIds, host \in Nodes,
             host_call_ok \in BOOLEAN :
               ReleaseAddress(context, public_ip, host, host_call_ok)
    \/ /\ ret = NoCall
       /\ \E context \in Contexts, instance_id \in RequestIds,
             public_ip \in AddressIds, host \in Nodes,
             host_call_ok \in BOOLEAN :
               AssociateAddress(context, instance_id, public_ip, host,
                                host_call_ok)
    \/ /\ ret = NoCall
       /\ \E context \in Contexts, public_ip \in AddressIds, host \in Nodes,
             host_call_ok \in BOOLEAN :
               DisassociateAddress(context, public_ip, host, host_call_ok)
    \/ /\ ret = NoCall
       /\ \E context \in Contexts, volume_id \in VolumeIds :
               DeleteVolume(context, volume_id)
    \/ /\ ret = NoCall
       /\ \E context \in Contexts, order \in Orders(DOMAIN addresses) :
               DescribeAddresses(context, order)
    \/ Return
    \/ /\ ret = NoCall
       /\ \E instance_id \in InstanceIds, node_name \in Nodes :
               NodeClaim(instance_id, node_name)
    \/ ret = NoCall /\ \E msg \in casts : NodeTerminate(msg)
    \/ ret = NoCall /\ \E msg \in casts : NodeOther(msg)
    \/ ret = NoCall /\ \E msg \in casts : NetworkNode(msg)
    \/ ret = NoCall /\ \E msg \in casts : LoseCast(msg)

SpecTerm == InitTerm /\ [][NextTerm]_vars

\* ------------------------------------ describe_instances, get_metadata
\* lines 372-373, 380-427: the listing describe_instances returns
_format_describe_instances(context) ==
    _format_instances(context, instances, None)

\* lines 369-370
DescribeInstances(context) ==
    /\ ret' = CallResult("describe_instances", context, None, "ok", "",
                         <<>>, _format_describe_instances(context))
    /\ UNCHANGED <<volumes, instances, casts, pending, history, hosts,
                   addresses, aggregate>>

\* InstanceDirectory.by_ip: the instances holding the private address, one
\* or none
get_instance_by_ip(ip) ==
    {i \in DOMAIN instances : instances[i].private_dns_name = ip}

\* lines 95-105: per key name, the private addresses of the instances of
\* the project
_get_mpi_data(project_id) ==
    [key_name \in {instances[j].key_name :
                     j \in {k \in DOMAIN instances :
                              instances[k].project_id = project_id}} |->
        {instances[j].private_dns_name :
           j \in {k \in DOMAIN instances :
                    /\ instances[k].project_id = project_id
                    /\ instances[k].key_name = key_name}}]

\* The key block, built whether or not the instance has a key.
public_keys_always(i) ==
    <<[name |-> i.key_name, openssh_key |-> i.key_data]>>

\* lines 112-120: the key block {'0': {'_name', 'openssh-key'}} as a
\* one-entry sequence, and '' as the empty one
public_keys(i) ==
    IF i.key_name # Absent
    THEN <<[name |-> i.key_name, openssh_key |-> i.key_data]>>
    ELSE <<>>

\* lines 107-162: no document when no instance has the address, else the
\* document of the instance
get_metadata(ipaddress) ==
    { [ami_id |-> instances[n].image_id,
       ami_launch_index |-> instances[n].ami_launch_index,
       instance_id |-> instances[n].instance_id,
       local_ipv4 |-> instances[n].private_dns_name,
       public_keys |-> public_keys(instances[n]),
       reservation_id |-> instances[n].reservation_id,
       mpi |-> _get_mpi_data(instances[n].project_id)] :
      n \in get_instance_by_ip(ipaddress) }

GetMetadata(ipaddress) ==
    /\ ret' = CallResult("get_metadata", None, ipaddress, "ok", "", <<>>,
                         get_metadata(ipaddress))
    /\ UNCHANGED <<volumes, instances, casts, pending, history, hosts,
                   addresses, aggregate>>

\* The directory at the start: up to MaxInstances instances, each launched
\* in one of NumReservations reservations; a reservation has one owner, one
\* image (the VPN image among them) and one key or none.
Launches ==
    [project_id : Projects, image_id : {"ami-1", vpn_image_id},
     key_name : {Absent} \cup KeyPairNames]

LaunchedRecord(i, res_id, launch, member) ==
    [instance_id |-> i,
     node_name |-> Unassigned,
     image_id |-> launch.image_id,
     kernel_id |-> default_kernel,
     ramdisk_id |-> default_ramdisk,
     reservation_id |-> res_id,
     launch_time |-> CHOOSE t \in Times : TRUE,
     key_data |-> IF launch.key_name = Absent THEN Absent
                  ELSE <<"ssh-rsa", <<"user", launch.project_id>>>>,
     key_name |-> launch.key_name,
     user_id |-> <<"user", launch.project_id>>,
     project_id |-> launch.project_id,
     ami_launch_index |->
        Cardinality({j \in 1..(i - 1) : member[j] = res_id}),
     private_dns_name |-> AllocateData(i).private_dns_name]

InitDescribe ==
    /\ Init!1 /\ Init!3 /\ Init!4 /\ Init!5 /\ Init!6 /\ Init!7
    /\ Init!8 /\ Init!9
    /\ \E launches \in [1..NumReservations -> Launches],
          member \in [1..MaxInstances -> 0..NumReservations] :
          instances =
            [i \in {j \in 1..MaxInstances : member[j] # 0} |->
                LaunchedRecord(i, member[i], launches[member[i]], member)]

PrivateIps ==
    {AllocateData(i).private_dns_name : i \in 1..(MaxInstances + 1)}

NextDescribe ==
    \/ \E context \in Contexts : DescribeInstances(context)
    \/ \E ipaddress \in PrivateIps : GetMetadata(ipaddress)

SpecDescribe == InitDescribe /\ [][NextDescribe]_vars

\* ------------------------------------------------------- update_state
\* A report: the item map of one node, item_id -> state.
ItemStates == {"available", "in-use"}

ItemMaps == UNION {[ids -> ItemStates] : ids \in SUBSET ItemIds}

\* items.keys(): the ids of the map, in ascending order
RECURSIVE Keys(_)
Keys(items) ==
    IF DOMAIN items = {} THEN <<>>
    ELSE LET least == CHOOSE i \in DOMAIN items :
                         \A j \in DOMAIN items : i <= j
         IN <<least>> \o Keys([i \in DOMAIN items \ {least} |-> items[i]])

\* A mapping stored on the controller under a topic's name: the ids with a
\* 'pending' placeholder and the item map of each node that reported.
Mapping(pending_ids, nodes) ==
    [kind |-> "dict", pending |-> pending_ids, nodes |-> nodes]

StateResult(topic, node_name, items, outcome, value) ==
    [op |-> "update_state", topic |-> topic, node_name |-> node_name,
     items |-> items, outcome |-> outcome, value |-> value]

\* lines 672-676: the early return for "instances", the getattr, and the
\* first test of the loop on what getattr found
UpdateBegin(p, topic, node_name, items) ==
    /\ pending[p] = Idle
    /\ UNCHANGED <<volumes, instances, casts, history, hosts, addresses,
                   aggregate>>
    /\ IF topic = "instances"
       THEN /\ ret' = StateResult(topic, node_name, items, "ok", TRUE)
            /\ UNCHANGED pending
       ELSE IF aggregate[topic] = Missing
       THEN /\ ret' = StateResult(topic, node_name, items,
                                  "AttributeError", FALSE)
            /\ UNCHANGED pending
       ELSE IF aggregate[topic] = Generator
       THEN /\ ret' = StateResult(topic, node_name, items,
                                  IF DOMAIN items # {}
                                  THEN "AttributeError" ELSE "TypeError",
                                  FALSE)
            /\ UNCHANGED pending
       ELSE /\ pending' = [pending EXCEPT ![p] =
                  [pc |-> "update_check", topic |-> topic,
                   node_name |-> node_name, items |-> items,
                   todo |-> Keys(items)]]
            /\ UNCHANGED ret

\* lines 680-682: the test for a placeholder of the next item id
UpdateCheck(p) ==
    LET r == pending[p]
    IN /\ r.pc = "update_check"
       /\ r.todo # <<>>
       /\ pending' = [pending EXCEPT ![p] =
             IF Head(r.todo) \in aggregate[r.topic].pending
             THEN [r EXCEPT !.pc = "update_del"]
             ELSE [r EXCEPT !.todo = Tail(r.todo)]]
       /\ UNCHANGED <<volumes, instances, casts, ret, history, hosts,
                      addresses, aggregate>>

\* line 683: del aggregate_state['pending'][item_id]
UpdateDel(p) ==
    LET r == pending[p]
    IN /\ r.pc = "update_del"
       /\ UNCHANGED <<volumes, instances, casts, history, hosts, addresses>>
       /\ IF Head(r.todo) \in aggregate[r.topic].pending
          THEN /\ aggregate' = [aggregate EXCEPT ![r.topic].pending =
                                    @ \ {Head(r.todo)}]
               /\ pending' = [pending EXCEPT ![p] =
                     [r EXCEPT !.pc = "update_check",
                               !.todo = Tail(r.todo)]]
               /\ UNCHANGED ret
          ELSE /\ ret' = StateResult(r.topic, r.node_name, r.items,
                                     "KeyError", FALSE)
               /\ pending' = [pending EXCEPT ![p] = Idle]
               /\ UNCHANGED aggregate

\* line 684: aggregate_state[node_name] = items
Stored(nodes, node_name, items) ==
    [n \in DOMAIN nodes \cup {node_name} |->
        IF n = node_name THEN items ELSE nodes[n]]

UpdateStore(p) ==
    LET r == pending[p]
    IN /\ r.pc = "update_check"
       /\ r.todo = <<>>
       /\ aggregate' = [aggregate EXCEPT ![r.topic].nodes =
                            Stored(@, r.node_name, r.items)]
       /\ pending' = [pending EXCEPT ![p] = Idle]
       /\ ret' = StateResult(r.topic, r.node_name, r.items, "ok", FALSE)
       /\ UNCHANGED <<volumes, instances, casts, history, hosts, addresses>>

\* The controller with a mapping stored under "networks", holding a
\* placeholder for some item ids and no report yet.
InitState ==
    /\ Init!1 /\ Init!2 /\ Init!3 /\ Init!4 /\ Init!5 /\ Init!6 /\ Init!7
    /\ Init!8
    /\ \E pending_ids \in SUBSET ItemIds :
          aggregate = [NoAggregate EXCEPT
                          !["networks"] = Mapping(pending_ids, <<>>)]

NextState ==
    \/ \E p \in Procs, topic \in Topics, node_name \in Nodes,
          items \in ItemMaps :
            UpdateBegin(p, topic, node_name, items)
    \/ \E p \in Procs : UpdateCheck(p)
    \/ \E p \in Procs : UpdateDel(p)
    \/ \E p \in Procs : UpdateStore(p)

SpecState == InitState /\ [][NextState]_vars

\* ------------------------------------------- lost and repeated commands
\* A client that wants a volume detached or an instance terminated, and
\* issues the call again until it sees the result.
Want(op, context, id) ==
    [pc |-> "want", op |-> op, context |-> context, id |-> id]

ClientWant(p, op, context, id) ==
    /\ pending[p] = Idle
    /\ IF op = "detach_volume"
       THEN /\ id \in VolumeIds
            /\ _get_volume(context, id)
            /\ volumes[id].status # "available"
       ELSE _get_instance(context, id)
    /\ pending' = [pending EXCEPT ![p] = Want(op, context, id)]
    /\ UNCHANGED <<volumes, instances, casts, ret, history, hosts,
                   addresses, aggregate>>

ClientDetach(p) ==
    /\ pending[p].pc = "want"
    /\ pending[p].op = "detach_volume"
    /\ DetachVolume(pending[p].context, pending[p].id)

ClientTerminate(p, host, host_call_ok) ==
    /\ pending[p].pc = "want"
    /\ pending[p].op = "terminate_instances"
    /\ TerminateInstances(pending[p].context, <<pending[p].id>>, host,
                          host_call_ok)

\* What the client waits for.
Reached(want) ==
    IF want.op = "detach_volume"
    THEN volumes[want.id].status = "available"
    ELSE want.id \notin DOMAIN instances

ClientDone(p) ==
    /\ pending[p].pc = "want"
    /\ Reached(pending[p])
    /\ pending' = [pending EXCEPT ![p] = Idle]
    /\ UNCHANGED <<volumes, instances, casts, ret, history, hosts,
                   addresses, aggregate>>

\* The bus hands a node a copy of a command and keeps the command.
Duplicate(msg) ==
    /\ msg \in casts
    /\ msg.method \in {"detach_volume", "terminate_instance"}
    /\ msg.topic[2] # Unassigned
    /\ IF msg.method = "detach_volume"
       THEN /\ volumes' = [volumes EXCEPT ![msg.volume_id] =
                               finish_detach(@)]
            /\ UNCHANGED instances
       ELSE /\ instances' = [i \in DOMAIN instances \ {msg.instance_id} |->
                                instances[i]]
            /\ UNCHANGED volumes
    /\ UNCHANGED <<casts, pending, ret, history, hosts, addresses,
                   aggregate>>

\* Every volume attached to a running instance.
InitRetry ==
    /\ Init!3 /\ Init!4 /\ Init!5 /\ Init!6 /\ Init!7 /\ Init!8 /\ Init!9
    /\ \E node_name \in Nodes :
          instances = [i \in InstanceIds |->
                         [instance_id |-> i, project_id |-> OwnerOf(i),
                          node_name |-> node_name,
                          private_dns_name |->
                              AllocateData(i).private_dns_name]]
    /\ \E now \in Times :
          volumes = [v \in VolumeIds |->
                       finish_attach(start_attach(
                           [status |-> "available",
                            attach_status |-> "detached",
                            instance_id |-> None, mountpoint |-> None,
                            attach_time |-> None, project_id |-> OwnerOf(v),
                            node_name |-> CHOOSE n \in Nodes : TRUE],
                           CHOOSE i \in InstanceIds : TRUE,
                           ((v - 1) % NumDevices) + 1, now))]

NextRetry ==
    \/ \E p \in Procs, context \in Contexts, volume_id \in VolumeIds :
            ClientWant(p, "detach_volume", context, volume_id)
    \/ \E p \in Procs, context \in Contexts, instance_id \in InstanceIds :
            ClientWant(p, "terminate_instances", context, instance_id)
    \/ \E p \in Procs : ClientDetach(p)
    \/ \E p \in Procs, host \in Nodes, host_call_ok \in BOOLEAN :
            ClientTerminate(p, host, host_call_ok)
    \/ \E p \in Procs : ClientDone(p)
    \/ \E msg \in casts : NodeDetach(msg)
    \/ \E msg \in casts : NodeTerminate(msg)
    \/ \E msg \in casts : NetworkNode(msg)
    \/ \E msg \in casts : Duplicate(msg)
    \/ \E msg \in casts : LoseCast(msg)

\* A call of the waiting client that gets its command onto the bus, or
\* finds the work done.
Effective(p) ==
    /\ pending[p].pc = "want"
    /\ \/ ClientDetach(p)
       \/ \E host \in Nodes : ClientTerminate(p, host, TRUE)
    /\ \/ Reached(pending[p])'
       \/ \E msg \in casts' :
             IF pending[p].op = "detach_volume"
             THEN /\ msg.method = "detach_volume"
                  /\ msg.volume_id = pending[p].id
             ELSE /\ msg.method = "terminate_instance"
                  /\ msg.instance_id = pending[p].id

\* The node takes a command about the volume, or about the instance.
Delivered(method, id) ==
    \E msg \in casts :
        /\ msg.method = method
        /\ IF method = "detach_volume"
           THEN msg.volume_id = id /\ NodeDetach(msg)
           ELSE msg.instance_id = id /\ NodeTerminate(msg)

\* The client does not give up, and the bus does not lose every copy.
SpecRetry ==
    /\ InitRetry
    /\ [][NextRetry]_vars
    /\ \A p \in Procs : SF_vars(Effective(p))
    /\ \A volume_id \in VolumeIds :
          SF_vars(Delivered("detach_volume", volume_id))
    /\ \A instance_id \in InstanceIds :
          SF_vars(Delivered("terminate_instance", instance_id))

\* ------------------------------------------------- _get_network_topic
\* Lines 486-494, one step for the lookup and one for the call, as run by
\* the operations of several requests at a time.

\* network_service.get_host_for_project (line 488)
get_host_for_project(project_id) == hosts[project_id]

TopicResult(context, outcome, value) ==
    [op |-> "_get_network_topic", context |-> context, outcome |-> outcome,
     value |-> value]

\* lines 488-489: read the host bound to the project
TopicLookup(p, context) ==
    /\ pending[p] = Idle
    /\ UNCHANGED <<volumes, instances, casts, history, hosts, addresses,
                   aggregate>>
    /\ IF get_host_for_project(context.project_id) # NoHost
       THEN /\ ret' = TopicResult(context, "ok",
                         NetworkTopic(
                             get_host_for_project(context.project_id)))
            /\ UNCHANGED pending
       ELSE /\ pending' = [pending EXCEPT ![p] =
                  [pc |-> "set_network_host", context |-> context]]
            /\ UNCHANGED ret

\* An answered set_network_host call, and the host the project had when
\* the call was made.
HostCall(context) ==
    [method |-> "set_network_host", project_id |-> context.project_id,
     user_id |-> context.user_id,
     bound |-> get_host_for_project(context.project_id)]

\* lines 490-494: the call, and the topic made of its answer. host is the
\* node the network service binds when the project has none.
TopicCall(p, host, host_call_ok) ==
    LET context == pending[p].context
    IN
    /\ pending[p].pc = "set_network_host"
    /\ Len(history) < MaxHistory
    /\ pending' = [pending EXCEPT ![p] = Idle]
    /\ UNCHANGED <<volumes, instances, casts, addresses, aggregate>>
    /\ IF host_call_ok
       THEN /\ hosts' = HostsAfter(context, host)
            /\ history' = Append(history, HostCall(context))
            /\ ret' = TopicResult(context, "ok",
                                  NetworkTopic(TopicHost(context, host)))
       ELSE /\ ret' = TopicResult(context, "RemoteError", NoHost)
            /\ UNCHANGED <<hosts, history>>

NextHost ==
    \/ \E p \in Procs, context \in Contexts : TopicLookup(p, context)
    \/ \E p \in Procs, host \in Nodes, host_call_ok \in BOOLEAN :
            TopicCall(p, host, host_call_ok)

SpecHost == Init /\ [][NextHost]_vars

\* =================================================================
\* Properties
\* =================================================================

\* The error kinds of the API and the exception classes that signal them:
\* exception.ApiError for a conflict, exception.Error for an invalid state.
Conflict == "ApiError"
InvalidState == "Error"

Holds(v, instance_id, device) ==
    /\ volumes[v].instance_id = instance_id
    /\ volumes[v].mountpoint = device

Cleared(volume) ==
    /\ volume.instance_id = None
    /\ volume.mountpoint = None
    /\ volume.attach_time = None

\* C1: in every reachable state no two distinct volumes hold the same
\* (instance_id, mountpoint) pair, also when two attach requests for
\* different volumes interleave between the scan and the transition.
C1_UniqueAttachment ==
    \A v, w \in VolumeIds :
        (v # w /\ volumes[v].instance_id # None) =>
            ~Holds(w, volumes[v].instance_id, volumes[v].mountpoint)

\* C2: a volume's status changes only along available -> attaching ->
\* attached -> detaching -> available, or to available from any status
\* (finishDetach).
StatusEdge(from, to) ==
    \/ to = from
    \/ to = "available"
    \/ from = "available" /\ to = "attaching"
    \/ from = "attaching" /\ to = "attached"
    \/ from = "attached" /\ to = "detaching"

C2_StatusCycle ==
    [][\A v \in VolumeIds :
          StatusEdge(volumes[v].status, volumes'[v].status)]_vars

\* C3: an attach request for a volume whose status is not available fails
\* with Conflict, changes no volume record and sends no command.
C3_AttachNeedsAvailable ==
    [][\A p \in Procs, context \in Contexts, v \in VolumeIds,
          i \in InstanceIds, d \in Devices :
          ( /\ AttachCheck(p, context, v, i, d)
            /\ _get_volume(context, v)
            /\ volumes[v].status # "available" )
          => /\ ret'.op = "attach_volume" /\ ret'.volume_id = v
             /\ ret'.outcome = Conflict /\ ret'.sent = 0
             /\ pending' = pending
             /\ volumes' = volumes /\ casts' = casts]_vars

\* C4: an attach request for (instance, device) fails with Conflict whenever
\* another volume records that pair, whatever that volume's status, and
\* leaves the requested volume (and everything else) unchanged.
C4_DeviceCollision ==
    [][\A p \in Procs, context \in Contexts, v \in VolumeIds,
          i \in InstanceIds, d \in Devices :
          ( /\ AttachCheck(p, context, v, i, d)
            /\ _get_volume(context, v)
            /\ \E w \in VolumeIds \ {v} : Holds(w, i, d) )
          => /\ ret' = Result("attach_volume", v, i, d, volumes[v].status,
                              Conflict, ret'.message, <<>>, NoValue)
             /\ pending' = pending
             /\ volumes' = volumes /\ casts' = casts]_vars

\* C4 witness: a request for an available volume was refused while the only
\* holder of the requested pair was another volume that is not attached.
C4_Witness ==
    /\ ret.op = "attach_volume" /\ ret.outcome = Conflict
    /\ ret.before = "available"
    /\ volumes[ret.volume_id].status = "available"
    /\ \E w \in VolumeIds \ {ret.volume_id} :
          /\ Holds(w, ret.instance_id, ret.device)
          /\ volumes[w].status = "detaching"

\* C5: a volume whose status is available records no instance_id and no
\* mountpoint.
C5_AvailableIsClear ==
    \A v \in VolumeIds :
        volumes[v].status = "available" =>
            volumes[v].instance_id = None /\ volumes[v].mountpoint = None

\* C5 witness: a volume that was attached is available again after a detach
\* call reset it.
C5_Witness ==
    /\ ret.op = "detach_volume" /\ ret.outcome = "ok" /\ ret.sent = 0
    /\ ret.before = "attached"
    /\ volumes[ret.volume_id].status = "available"

\* C6: detach_volume on an attached volume whose instance lookup raises
\* NotFound returns a result, sends nothing and leaves the volume available
\* with instance_id, mountpoint and attach_time cleared.
C6_DetachBlind ==
    [][\A context \in Contexts, v \in VolumeIds :
          ( /\ DetachVolume(context, v)
            /\ _get_volume(context, v)
            /\ volumes[v].status = "attached"
            /\ ~_get_instance(context, volumes[v].instance_id) )
          => /\ ret'.op = "detach_volume" /\ ret'.volume_id = v
             /\ ret'.outcome = "ok" /\ ret'.sent = 0
             /\ ret'.value.status = "detached"
             /\ casts' = casts
             /\ volumes'[v].status = "available"
             /\ Cleared(volumes'[v])]_vars

\* C6 witness: the call found the volume attached, sent nothing and returned.
C6_Witness ==
    /\ ret.op = "detach_volume" /\ ret.outcome = "ok" /\ ret.sent = 0
    /\ ret.before = "attached"
    /\ ret.value.volumeId = ret.volume_id
    /\ ret.value.instanceId \notin DOMAIN instances
    /\ volumes[ret.volume_id].status = "available"
    /\ Cleared(volumes[ret.volume_id])

\* C7: a detach request is accepted only for an attached volume; for every
\* other attach_status it fails with InvalidState, the record is unchanged
\* and no command is sent.
C7_DetachNeedsAttached ==
    [][\A context \in Contexts, v \in VolumeIds :
          ( /\ DetachVolume(context, v)
            /\ _get_volume(context, v)
            /\ volumes[v].attach_status # "attached" )
          => /\ ret'.op = "detach_volume" /\ ret'.volume_id = v
             /\ ret'.outcome = InvalidState /\ ret'.sent = 0
             /\ volumes' = volumes /\ casts' = casts]_vars

\* C8: finish_detach is idempotent: on a volume in any state it yields
\* status available with instance_id, mountpoint and attach_time cleared,
\* and applying it again yields the same record.
C8_FinishDetachIdempotent ==
    \A v \in VolumeIds :
        LET once == finish_detach(volumes[v])
        IN /\ once.status = "available"
           /\ Cleared(once)
           /\ finish_detach(once) = once

\* C8 witness: one volume was reset by a detach call and is available, while
\* another is attached with all attachment fields set.
C8_Witness ==
    /\ ret.op = "detach_volume" /\ ret.outcome = "ok" /\ ret.sent = 0
    /\ volumes[ret.volume_id].status = "available"
    /\ \E w \in VolumeIds :
          /\ volumes[w].status = "attached"
          /\ volumes[w].instance_id # None
          /\ volumes[w].mountpoint # None
          /\ volumes[w].attach_time # None

\* C9: with V1 attached to instance i at device d, attaching V2 to (i, d)
\* fails with Conflict; once V1 is detached and available again its
\* instance_id and mountpoint are cleared and attaching V2 to (i, d)
\* succeeds.
IsAttach(r, v, i, d, outcome) ==
    /\ r.op = "attach_volume" /\ r.volume_id = v
    /\ r.instance_id = i /\ r.device = d /\ r.outcome = outcome

IsDetach(r, v, outcome) ==
    r.op = "detach_volume" /\ r.volume_id = v /\ r.outcome = outcome

FirstAttached(V1, i, d) ==
    Len(history) = 1 /\ IsAttach(history[1], V1, i, d, "ok")

FirstDetached(V1, V2, i, d) ==
    /\ Len(history) = 3
    /\ IsAttach(history[1], V1, i, d, "ok")
    /\ IsAttach(history[2], V2, i, d, Conflict)
    /\ IsDetach(history[3], V1, "ok")
    /\ volumes[V1].status = "available"

C9_AttachDetachScenario ==
    [][\A V1, V2 \in VolumeIds, i \in InstanceIds, d \in Devices :
        V1 # V2 =>
        /\ \A context \in Contexts :
             ( /\ FirstAttached(V1, i, d)
               /\ _get_volume(context, V2)
               /\ AttachCheck(Client, context, V2, i, d) )
             => /\ IsAttach(ret', V2, i, d, Conflict)
                /\ volumes' = volumes /\ casts' = casts
                /\ pending' = pending
        /\ FirstDetached(V1, V2, i, d) =>
             /\ volumes[V1].instance_id = None
             /\ volumes[V1].mountpoint = None
        /\ \A context \in Contexts :
             ( /\ FirstDetached(V1, V2, i, d)
               /\ _get_volume(context, V2)
               /\ AttachCheck(Client, context, V2, i, d) )
             => /\ pending'[Client].pc = "start_attach"
                /\ ret' = ret
        /\ ( /\ FirstDetached(V1, V2, i, d)
             /\ pending[Client].pc = "start_attach"
             /\ pending[Client].volume_id = V2
             /\ pending[Client].instance_id = i
             /\ pending[Client].device = d
             /\ _get_instance(pending[Client].context, i)
             /\ AttachStart(Client) )
           => /\ IsAttach(ret', V2, i, d, "ok")
              /\ ret'.sent = 1
              /\ Holds(V2, i, d)'
              /\ volumes'[V2].status = "attaching"]_vars

\* C9 witness: the four calls of the scenario ended as it says, the first
\* volume having been attached when it was detached.
C9_Witness ==
    \E V1, V2 \in VolumeIds, i \in InstanceIds, d \in Devices :
        /\ V1 # V2
        /\ Len(history) = 4
        /\ IsAttach(history[1], V1, i, d, "ok")
        /\ IsAttach(history[2], V2, i, d, Conflict)
        /\ IsDetach(history[3], V1, "ok")
        /\ history[3].before = "attached"
        /\ IsAttach(history[4], V2, i, d, "ok")
        /\ history[4].before = "available"
        /\ volumes[V1].status = "available"
        /\ Cleared(volumes[V1])
        /\ Holds(V2, i, d)

\* C10: for every max_count N and every caller context, a run_instances
\* call that gets as far as its return statement (it resolved its images,
\* key pair and network topic, and every allocation call answered) returns
\* exactly one reservation, holding exactly N instance entries whose
\* ami_launch_index values are 0..N-1, all with the reservation's id and
\* one launch_time.
C10_OneReservation ==
    ( /\ ret.op = "run_instances"
      /\ ret.outcome \notin {"NotFound", "ApiError", "RemoteError",
                             "UnboundLocalError"} )
    => /\ ret.outcome = "ok"
       /\ Cardinality(ret.value) = 1
       /\ \A r \in ret.value :
            /\ Cardinality(r.instances_set) = ret.max_count
            /\ {e.ami_launch_index : e \in r.instances_set}
                 = 0..(ret.max_count - 1)
            /\ \A e \in r.instances_set :
                 e.reservation_id = r.reservation_id
            /\ \A e, f \in r.instances_set : e.launch_time = f.launch_time

\* C11: a run_instances call that fails while resolving the image, kernel
\* or ramdisk, the key pair (an absent key pair failing with NotFound) or
\* the network topic allocates and persists no instance record and sends no
\* run command: the instance records are the same as before the call.
FailsResolving(context, image_id, kernel_arg, key_name, host_call_ok) ==
    \/ image_id = vpn_image_id
    \/ ~_get_image(context, image_id)
    \/ LET image == TheImage(context, image_id)
       IN \/ ~_get_image(context,
                         IF kernel_arg # Absent THEN kernel_arg
                         ELSE ImageGet(image, "kernelId", default_kernel))
          \/ ~_get_image(context,
                         ImageGet(image, "ramdiskId", default_ramdisk))
    \/ key_name # Absent /\ get_key_pair(context.user_id, key_name) = {}
    \/ NeedsHost(context) /\ ~host_call_ok

KeyPairAbsent(context, image_id, kernel_arg, key_name) ==
    /\ ~FailsResolving(context, image_id, kernel_arg, Absent, TRUE)
    /\ key_name # Absent
    /\ get_key_pair(context.user_id, key_name) = {}

C11_NoPartialLaunch ==
    [][\A context \in Contexts,
          image_id \in {"ami-1", "ami-2", vpn_image_id},
          kernel_arg \in {Absent, "aki-none"},
          key_name \in {Absent} \cup KeyPairNames,
          max_count \in 0..MaxCount,
          host \in Nodes, host_call_ok \in BOOLEAN, now \in Times,
          fail_at \in 0..MaxCount :
          ( /\ RunInstances(context, image_id, kernel_arg, key_name,
                            max_count, host, host_call_ok, fail_at, now, "")
            /\ FailsResolving(context, image_id, kernel_arg, key_name,
                              host_call_ok) )
          => /\ instances' = instances
             /\ casts' = casts
             /\ ret'.sent = 0
             /\ ret'.outcome # "ok"
             /\ KeyPairAbsent(context, image_id, kernel_arg, key_name)
                  => ret'.outcome = "NotFound"]_vars

\* What a completed terminate_instances or reboot_instances call was asked
\* and what it found: the ids of the list that resolved for the caller in
\* the state the call started from.
Occurrences(ids, i) == Cardinality({k \in 1..Len(ids) : ids[k] = i})

FoundBy(call) ==
    {i \in DOMAIN instances :
        /\ Occurrences(call.args, i) > 0
        /\ Authorized(call.context, instances[i])}

ComputeSendsFor(msgs, i) ==
    {k \in 1..Len(msgs) :
        msgs[k].topic[1] = "compute" /\ msgs[k].instance_id = i}

Sent(msgs, msg) == \E k \in 1..Len(msgs) : msgs[k] = msg

Terminated(call) ==
    /\ ret = NoCall
    /\ call.op = "terminate_instances"
    /\ call.outcome # "RemoteError"

\* C12: for every instance terminate_instances finds: if its node_name is
\* 'unassigned' the call destroys the record itself and sends no command to
\* a compute node for it; if a node owns it, one terminate command (one for
\* each time the list names it) goes to compute.<node_name>, nothing else
\* goes to a compute node for it, and the call leaves the record in place.
C12_TerminateOrDestroy ==
    [][Terminated(ret') =>
        \A i \in FoundBy(ret') :
            IF instances[i].node_name = Unassigned
            THEN /\ i \notin DOMAIN instances'
                 /\ ComputeSendsFor(ret'.msgs, i) = {}
            ELSE /\ Cardinality(ComputeSendsFor(ret'.msgs, i))
                      = Occurrences(ret'.args, i)
                 /\ \A k \in ComputeSendsFor(ret'.msgs, i) :
                      ret'.msgs[k]
                        = TerminateMessage(i, instances[i].node_name)
                 /\ i \in DOMAIN instances'
                 /\ instances'[i] = instances[i]]_vars

\* C12 witness: a call found an instance no node owned, released its
\* private address, sent nothing to a compute node and the record is gone.
C12_Witness ==
    /\ ret.op = "terminate_instances" /\ ret.outcome = "ok"
    /\ \E i \in InstanceIds :
          /\ Occurrences(ret.args, i) > 0
          /\ i \notin DOMAIN instances
          /\ \E k \in 1..Len(ret.msgs) :
                /\ ret.msgs[k].method = "deallocate_fixed_ip"
                /\ ret.msgs[k].fixed_ip = AllocateData(i).private_dns_name
          /\ \A k \in 1..Len(ret.msgs) : ret.msgs[k].topic[1] # "compute"

\* C13: a terminate_instances call whose network topic resolves returns
\* success whatever ids of its list do not resolve, and every id that does
\* resolve gets its whole cleanup wherever it stands in the list: the
\* disassociation of its elastic address if it has one, the release of its
\* private address if it has one, and the terminate command or the
\* destruction of the record.
C13_TerminateEachId ==
    [][Terminated(ret') =>
        /\ ret'.outcome = "ok"
        /\ ret'.value = TRUE
        /\ \A i \in FoundBy(ret') :
            LET network_topic ==
                    NetworkTopic(hosts'[ret'.context.project_id])
                elastic_ip == get_public_ip_for_instance(i)
            IN /\ elastic_ip # None =>
                    Sent(ret'.msgs,
                         DisassociateMessage(network_topic, elastic_ip))
               /\ "private_dns_name" \in DOMAIN instances[i] =>
                    Sent(ret'.msgs,
                         DeallocateFixedMessage(network_topic,
                             instances[i].private_dns_name))
               /\ IF instances[i].node_name = Unassigned
                  THEN i \notin DOMAIN instances'
                  ELSE Sent(ret'.msgs,
                            TerminateMessage(i, instances[i].node_name))]_vars

\* C13 witness: the first id of the list did not resolve, the second was an
\* instance with an elastic address on a node; the call returned success
\* having sent the three commands for the second.
C13_Witness ==
    /\ ret.op = "terminate_instances" /\ ret.outcome = "ok"
    /\ Len(ret.args) = 2
    /\ ret.args[1] \notin InstanceIds
    /\ ret.args[2] \in DOMAIN instances
    /\ ret.sent = 3
    /\ ret.msgs[1].method = "disassociate_elastic_ip"
    /\ ret.msgs[2].method = "deallocate_fixed_ip"
    /\ ret.msgs[3].method = "terminate_instance"
    /\ ret.msgs[3].instance_id = ret.args[2]

\* C14: reboot_instances fails with NotFound when an id of its list does
\* not resolve, and sends no reboot command for that id or for any id after
\* it in the list: the commands sent are those for the ids before it.
Unresolved(call) ==
    {k \in 1..Len(call.args) : ~_get_instance(call.context, call.args[k])}

C14_RebootAborts ==
    [][(ret = NoCall /\ ret'.op = "reboot_instances"
        /\ Unresolved(ret') # {}) =>
        LET first == CHOOSE k \in Unresolved(ret') :
                        \A j \in Unresolved(ret') : k <= j
        IN /\ ret'.outcome = "NotFound"
           /\ ret'.value # TRUE
           /\ Len(ret'.msgs) = first - 1
           /\ \A k \in 1..(first - 1) :
                 ret'.msgs[k]
                   = RebootMessage(ret'.args[k],
                                   instances[ret'.args[k]].node_name)
           /\ casts' \subseteq casts \cup
                 {ret'.msgs[k] : k \in 1..(first - 1)}
           /\ instances' = instances]_vars

\* C14 witness: the first id of the list did not resolve and the second
\* names an instance the caller may see; the call failed with NotFound and
\* sent nothing.
C14_Witness ==
    /\ ret.op = "reboot_instances" /\ ret.outcome = "NotFound"
    /\ Len(ret.args) = 2
    /\ ret.args[1] \notin InstanceIds
    /\ _get_instance(ret.context, ret.args[2])
    /\ ret.sent = 0

\* C15: for a caller who is no administrator, no operation sends a command
\* about, or changes a record of, an instance, volume or elastic address of
\* another project, and a request naming such a resource fails with
\* NotFound (unless the network service it needs does not answer). Stated
\* for delete_volume, terminate_instances, reboot_instances and the three
\* address operations.
Foreign(context, store, id) ==
    id \in DOMAIN store /\ store[id].project_id # context.project_id

AboutForeign(context, msg) ==
    IF msg.method \in {"terminate_instance", "reboot_instance"}
    THEN Foreign(context, instances, msg.instance_id)
    ELSE IF msg.method = "delete_volume"
    THEN Foreign(context, volumes, msg.volume_id)
    ELSE IF msg.method = "deallocate_fixed_ip"
    THEN \E i \in DOMAIN instances :
            /\ Foreign(context, instances, i)
            /\ "private_dns_name" \in DOMAIN instances[i]
            /\ instances[i].private_dns_name = msg.fixed_ip
    ELSE Foreign(context, addresses, msg.elastic_ip)

NamesForeign(call) ==
    IF call.op \in {"release_address", "disassociate_address"}
    THEN Foreign(call.context, addresses, call.args)
    ELSE IF call.op = "associate_address"
    THEN \/ Foreign(call.context, instances, call.args[1])
         \/ Foreign(call.context, addresses, call.args[2])
    ELSE IF call.op = "delete_volume"
    THEN Foreign(call.context, volumes, call.args)
    ELSE IF call.op = "reboot_instances"
    THEN \E k \in 1..Len(call.args) :
            Foreign(call.context, instances, call.args[k])
    ELSE FALSE

C15_AuthorizeFirst ==
    [][(ret = NoCall /\ ret' # NoCall /\ ~ret'.context.is_admin) =>
        /\ \A k \in 1..Len(ret'.msgs) :
              ~AboutForeign(ret'.context, ret'.msgs[k])
        /\ \A i \in DOMAIN instances :
              Foreign(ret'.context, instances, i) =>
                  i \in DOMAIN instances' /\ instances'[i] = instances[i]
        /\ \A a \in DOMAIN addresses :
              Foreign(ret'.context, addresses, a) =>
                  a \in DOMAIN addresses' /\ addresses'[a] = addresses[a]
        /\ \A v \in DOMAIN volumes :
              Foreign(ret'.context, volumes, v) => volumes'[v] = volumes[v]
        /\ (NamesForeign(ret') /\ ret'.outcome # "RemoteError") =>
              ret'.outcome = "NotFound"]_vars

\* C16: in every state of the instance store, describe_instances for a
\* caller who is no administrator returns no instance of the VPN image and
\* no instance of another project, and for an administrator it returns
\* every instance, those of the VPN image included.
ShownBy(call) ==
    UNION {{e.instance_id : e \in r.instances_set} : r \in call.value}

C16_DescribeHidesVpn ==
    ret.op = "describe_instances" =>
        /\ \A r \in ret.value : \A e \in r.instances_set :
              /\ e.instance_id \in DOMAIN instances
              /\ e.image_id = instances[e.instance_id].image_id
        /\ IF ret.context.is_admin
           THEN ShownBy(ret) = DOMAIN instances
           ELSE \A i \in ShownBy(ret) :
                   /\ instances[i].image_id # vpn_image_id
                   /\ instances[i].project_id = ret.context.project_id

\* C16 witness: the caller's project has an instance of the VPN image and
\* another instance; the listing the plain caller got shows only the other.
C16_Witness ==
    /\ ret.op = "describe_instances" /\ ~ret.context.is_admin
    /\ ShownBy(ret) # {}
    /\ \E i \in DOMAIN instances \ ShownBy(ret) :
          /\ instances[i].project_id = ret.context.project_id
          /\ instances[i].image_id = vpn_image_id

\* C20: get_metadata(ip) returns no document, and no error, when no
\* instance has that private address; for the instance that has it, the
\* document's public-keys field is present and empty when the instance's
\* key_name is empty, and holds the key's name and public material when it
\* has a key pair.
C20_MetadataKeys ==
    ret.op = "get_metadata" =>
        LET owners == {i \in DOMAIN instances :
                          instances[i].private_dns_name = ret.args}
        IN /\ ret.outcome = "ok"
           /\ owners = {} => ret.value = {}
           /\ \A i \in owners :
                /\ Cardinality(ret.value) = 1
                /\ \A doc \in ret.value :
                     /\ doc.instance_id = i
                     /\ "public_keys" \in DOMAIN doc
                     /\ IF instances[i].key_name = Absent
                        THEN doc.public_keys = <<>>
                        ELSE doc.public_keys =
                               <<[name |-> instances[i].key_name,
                                  openssh_key |-> instances[i].key_data]>>

\* C20 witness: the document of an instance launched without a key pair.
C20_Witness ==
    /\ ret.op = "get_metadata"
    /\ \E doc \in ret.value :
          /\ instances[doc.instance_id].key_name = Absent
          /\ doc.public_keys = <<>>
    /\ \E j \in DOMAIN instances : instances[j].key_name # Absent

\* C18: a report on a topic other than "instances" is merged: when the call
\* has run, the aggregate's entry for the reporting node is the report's
\* item map, no item id of the report is left in the pending map, and the
\* entries of the other nodes and the pending ids the report does not name
\* are as they were; a report on "instances" changes nothing and returns
\* success.
C18_ReportMerged ==
    [][\A p \in Procs :
        /\ \A topic \in Topics, node_name \in Nodes, items \in ItemMaps :
              UpdateBegin(p, topic, node_name, items) =>
                  IF topic = "instances"
                  THEN /\ ret'.outcome = "ok" /\ ret'.value = TRUE
                       /\ aggregate' = aggregate
                       /\ pending' = pending
                  ELSE /\ pending'[p].pc = "update_check"
                       /\ ret' = ret
        /\ UpdateDel(p) =>
              /\ pending'[p] # Idle
              /\ aggregate[pending[p].topic].pending
                   \ DOMAIN pending[p].items
                 \subseteq aggregate'[pending[p].topic].pending
        /\ UpdateStore(p) =>
              LET r == pending[p]
                  before == aggregate[r.topic]
                  after == aggregate'[r.topic]
              IN /\ ret'.outcome = "ok"
                 /\ after.nodes[r.node_name] = r.items
                 /\ \A n \in DOMAIN before.nodes \ {r.node_name} :
                       after.nodes[n] = before.nodes[n]
                 /\ after.pending \cap DOMAIN r.items = {}
                 /\ after.pending = before.pending]_vars

\* C19: two reports on one topic that run at the same time both complete
\* without error, also when both confirm the same pending item id. Stated
\* for the reports on a topic under whose name a mapping is stored.
C19_ReportsSerialized ==
    ( /\ ret.op = "update_state"
      /\ ret.topic # "instances"
      /\ aggregate[ret.topic].kind = "dict" )
    => ret.outcome = "ok"

\* C17: the terminate and the detach workflow stay correct when the command
\* is lost or duplicated. A detach call issued again for a volume that is
\* still detaching, and a terminate call issued again for an instance whose
\* record is still there, is accepted and sends the command again; a copy
\* of a command that arrives when its work is done changes no record; and
\* if the client keeps calling and commands are eventually delivered, the
\* volume it wants detached is eventually available and the instance it
\* wants terminated is eventually gone from the directory.
Wants ==
    {Want("detach_volume", context, id) :
        context \in Contexts, id \in VolumeIds}
    \cup {Want("terminate_instances", context, id) :
            context \in Contexts, id \in InstanceIds}

AcceptedAgain ==
    \A p \in Procs :
        /\ ( /\ ClientDetach(p)
             /\ volumes[pending[p].id].status = "detaching" )
           => /\ ret'.outcome = "ok"
              /\ IF _get_instance(pending[p].context,
                                  volumes[pending[p].id].instance_id)
                 THEN ret'.sent = 1
                 ELSE volumes'[pending[p].id].status = "available"
        /\ \A host \in Nodes, host_call_ok \in BOOLEAN :
             ( /\ ClientTerminate(p, host, host_call_ok)
               /\ host_call_ok \/ ~NeedsHost(pending[p].context)
               /\ pending[p].id \in DOMAIN instances )
             => /\ ret'.outcome = "ok"
                /\ ret'.sent > 0
                /\ ret'.msgs[ret'.sent] =
                     TerminateMessage(pending[p].id,
                                      instances[pending[p].id].node_name)

CopyHarmless ==
    \A msg \in casts :
        ( /\ Duplicate(msg) \/ NodeDetach(msg) \/ NodeTerminate(msg)
          /\ IF msg.method = "detach_volume"
             THEN volumes[msg.volume_id].status = "available"
             ELSE msg.instance_id \notin DOMAIN instances )
        => /\ volumes' = volumes
           /\ instances' = instances

C17_RetryCompletes ==
    /\ [][AcceptedAgain]_vars
    /\ [][CopyHarmless]_vars
    /\ \A p \in Procs, want \in Wants :
          (pending[p] = want) ~> Reached(want)

\* A detach call issued again on a detaching volume sent its command, and
\* the volume the client wanted detached is available.
C17_Witness ==
    /\ ret.op = "detach_volume"
    /\ ret.before = "detaching"
    /\ ret.outcome = "ok"
    /\ ret.sent = 1
    /\ volumes[ret.volume_id].status = "available"
    /\ \E p \in Procs :
          pending[p] \in {Want("detach_volume", context, ret.volume_id) :
                             context \in Contexts}

\* C21: attach_volume gives up at the first error: when the call fails
\* because the instance does not resolve (NotFound), the volume record is
\* what it was before the call and no attach command was sent.
C21_AttachAbortsClean ==
    [][\A p \in Procs :
          ( /\ AttachStart(p)
            /\ ret'.outcome = "NotFound" )
          => /\ volumes' = volumes
             /\ casts' = casts]_vars

\* C26: node-scoped topics are used only for an instance a node has claimed:
\* no command is ever sent on the compute topic formed from 'unassigned'.
C26_NoUnassignedTopic ==
    \A msg \in casts : msg.topic # ComputeTopic(Unassigned)

\* C22: describe_addresses completes, whatever the store holds and in
\* whatever order: for a caller who is not an administrator it returns one
\* entry for each address of the caller's project and no other entry, for
\* an administrator one entry for each address of the store.
Listed(value) == {value[k].public_ip : k \in DOMAIN value}

C22_DescribeAddresses ==
    ret.op = "describe_addresses"
    => /\ ret.outcome = "ok"
       /\ Listed(ret.value) =
            {a \in DOMAIN addresses : Authorized(ret.context, addresses[a])}
       /\ Len(ret.value) = Cardinality(Listed(ret.value))

\* C23: the lookup of a project's network host and the call that assigns
\* one are one step: set_network_host is called only for a project that has
\* no host, and whatever the interleaving of the operations of a project at
\* most one such call is answered for it.
HostCalls(project_id) ==
    {k \in DOMAIN history : history[k].project_id = project_id}

C23_OneHostCall ==
    /\ [][\A p \in Procs, host \in Nodes, host_call_ok \in BOOLEAN :
            TopicCall(p, host, host_call_ok)
            => get_host_for_project(pending[p].context.project_id)
                 = NoHost]_vars
    /\ [](\A project_id \in Projects :
            Cardinality(HostCalls(project_id)) <= 1)

\* C24: whatever the answer to allocate_fixed_ip carries, also a key named
\* reservation_id, ami_launch_index, project_id or user_id, a record
\* run_instances saves has the reservation id of its batch, its own launch
\* index and the caller's owner ids; so no two instance records ever share
\* a reservation id and a launch index.
Launched == DOMAIN instances' \ DOMAIN instances

C24_OwnFieldsWin ==
    /\ [][Launched # {} =>
            /\ \A i \in Launched :
                  /\ instances'[i].project_id = ret'.context.project_id
                  /\ instances'[i].user_id = ret'.context.user_id
                  /\ instances'[i].reservation_id
                       \notin ReservationIds(instances)
                  /\ \A j \in Launched :
                        instances'[j].reservation_id
                          = instances'[i].reservation_id
            /\ {instances'[i].ami_launch_index : i \in Launched}
                 = 0..(Cardinality(Launched) - 1)]_vars
    /\ [](\A i, j \in DOMAIN instances :
            ( /\ instances[i].reservation_id = instances[j].reservation_id
              /\ instances[i].ami_launch_index
                   = instances[j].ami_launch_index )
            => i = j)

\* C25: a record is saved after its allocate_fixed_ip call has returned and
\* before its run command is sent. When the call for launch index k fails
\* the whole call fails with that error: one record was saved and one run
\* command sent for each of the k indexes before, and neither for index k
\* or a later one.
C25_PartialLaunch ==
    [][( /\ ret'.op = "run_instances"
         /\ ret' # ret \/ Launched # {}
         /\ ret'.outcome = "RemoteError"
         /\ ret'.message = "allocate_fixed_ip" )
       => /\ DOMAIN instances \subseteq DOMAIN instances'
          /\ \A i \in DOMAIN instances : instances'[i] = instances[i]
          /\ Cardinality(Launched) = ret'.sent
          /\ ret'.sent < ret'.max_count
          /\ \A i \in Launched :
                /\ "private_dns_name" \in DOMAIN instances'[i]
                /\ i \in DOMAIN instances'
          /\ \A msg \in casts' \ casts :
                /\ msg.method = "run_instance"
                /\ msg.instance_id \in Launched]_vars

\* The allocation call for the second instance of a batch failed: the first
\* instance is in the directory, and its run command was sent.
C25_Witness ==
    /\ ret.op = "run_instances"
    /\ ret.outcome = "RemoteError"
    /\ ret.message = "allocate_fixed_ip"
    /\ ret.max_count = 2
    /\ ret.sent = 1
    /\ Cardinality(DOMAIN instances) = 1

====
